---- MODULE Spec2Model ----
(***************************************************************************)
(* Model of src/app.py: the e-mail intake and approval workflow.           *)
(*                                                                         *)
(* Program state: email_monitor_running, processed_emails,                 *)
(* recent_email_activity, pending_responses (src/app.py:72-75).            *)
(* Text values whose content the code inspects (sender addresses,          *)
(* subjects) are sequences of one-character strings; opaque texts (bodies, *)
(* generated replies) are plain strings.                                   *)
(***************************************************************************)
EXTENDS Integers, Sequences, FiniteSets, Bags, TLC

\* ------------------------------------------------------------------ bounds
\* The mailboxes hold the messages 1..NumMsgs.
NumMsgs == 2

MsgIds == 1..NumMsgs

\* the messages of the specification with one message more
MoreMsgIds == 1..(NumMsgs + 1)

\* ids a human can put in an approve / reject / edit request
RequestIds == 1..NumMsgs

\* ------------------------------------------------------------------ text
None == <<"None">>

Str1 == <<"u", "@", "x", ".", "o">>
Str2 == <<"N", " ", "<", "u", "@", "x", ".", "o", ">">>
Str3 == <<"p", "@", "a", ".", "v", ".", "g">>
Str4 == <<"c", "@", "o", ".", "t">>
Str5 == <<"w", "@", "y", ".", "o">>

RECURSIVE split(_, _)
\* str.split(sep) for a one-character separator
split(s, sep) ==
    IF \A i \in 1..Len(s) : s[i] # sep
    THEN <<s>>
    ELSE LET k == CHOOSE i \in 1..Len(s) :
                      s[i] = sep /\ \A j \in 1..(i - 1) : s[j] # sep
         IN  <<SubSeq(s, 1, k - 1)>> \o split(SubSeq(s, k + 1, Len(s)), sep)

lowerChar(ch) ==
    CASE ch = "C" -> "c"
      [] ch = "G" -> "g"
      [] ch = "N" -> "n"
      [] ch = "O" -> "o"
      [] ch = "T" -> "t"
      [] ch = "V" -> "v"
      [] OTHER -> ch

\* str.lower()
lower(s) == [i \in 1..Len(s) |-> lowerChar(s[i])]

\* Python's `sub in s` on strings
contains(sub, s) ==
    \E i \in 0..(Len(s) - Len(sub)) : SubSeq(s, i + 1, i + Len(sub)) = sub

\* Python's `ch in s` for one character
hasChar(ch, s) == \E i \in 1..Len(s) : s[i] = ch

\* dict.get(key, default)
Get(d, key, default) == IF key \in DOMAIN d THEN d[key] ELSE default

\* ------------------------------------------------------------------ configuration
\* OTL_CONFIG["vip_domains"]
vip_domains == {<<"v", ".", "g">>}

\* OTL_CONFIG["email_accounts"] (one of them is written with a capital)
email_accounts == {<<"C", "@", "o", ".", "t">>, <<"i", "@", "o", ".", "t">>}

\* EMAIL_CONFIG: mailbox address -> connection settings. process_emails walks
\* every entry of the dictionary; the file ships one entry, and a second one is
\* configured here so that a cycle visits more than one mailbox.
EMAIL_CONFIG ==
    [m \in {"info", "mdigo"} |-> [email |-> m, password |-> TRUE]]

Mailboxes == DOMAIN EMAIL_CONFIG

\* iteration order of EMAIL_CONFIG.items()
MailboxOrder == <<"info", "mdigo">>

\* the fixed acknowledgment text of generate_response's except branch
Fallback == "fallback"

\* ------------------------------------------------------------------ environment
\* What the IMAP server holds: the message behind each (mailbox, identifier).
\* A missing From header makes email_message['From'] None.
Inbox(mb, id) ==
    LET k == id % 3 IN
    IF mb = "info"
    THEN CASE k = 1 -> [sender |-> Str2, subject |-> <<"x">>, body |-> "b1"]
           [] k = 2 -> [sender |-> Str5, subject |-> <<"Re:", "x">>, body |-> "b2"]
           [] OTHER -> [sender |-> Str4, subject |-> <<"x">>, body |-> "b3"]
    ELSE CASE k = 1 -> [sender |-> Str3, subject |-> <<"x">>, body |-> "b4"]
           [] k = 2 -> [sender |-> None, subject |-> <<"x">>, body |-> "b5"]
           [] OTHER -> [sender |-> Str1, subject |-> <<"x">>, body |-> "b6"]

\* What the chat-completion call can come back with: an exception, or the JSON
\* it was asked for (the sentiment key may be missing).
ClassifierReplies ==
    { [raise |-> TRUE],
      [classification |-> "volunteer_interest", confidence |-> 85, sentiment |-> "positive"],
      [classification |-> "partnership", confidence |-> 90] }

GeneratorReplies == { [raise |-> TRUE], [content |-> "draft"] }

\* texts a human can submit through edit_response
EditTexts == {"edited"}

\* outcomes of connect_smtp + smtp.send_message
SmtpOutcomes == {"sent", "connect_failed", "send_failed"}

\* ------------------------------------------------------------------ state
VARIABLES
    email_monitor_running,  \* src/app.py:72
    processed_emails,       \* src/app.py:73
    recent_email_activity,  \* src/app.py:74
    pending_responses,      \* src/app.py:75
    monitor_threads,        \* number of threads started by start_email_monitoring
    poll_pc,                \* position of the monitor thread
    accounts_left,          \* mailboxes process_emails has still to visit this cycle
    new_emails,             \* fetched messages process_emails has still to handle
    clock,                  \* datetime.now(), as a logical clock
    outbox,                 \* the messages handed to smtp.send_message, as a bag
    handed,                 \* how often each (mailbox, id) entered the pipeline
    assigned,               \* the ids given to drafts so far
    last_edit,              \* the text of the last edit accepted for each id (SpecEdit)
    last,                   \* the step just taken and what it returned
    req,                    \* per request thread: the handler it is in, its locals
    requests                \* number of requests accepted by the request threads

vars == <<email_monitor_running, processed_emails, recent_email_activity,
          pending_responses, monitor_threads, poll_pc, accounts_left, new_emails,
          clock, outbox, handed, assigned, last_edit, last, req, requests>>

\* the threads of the web server that serve requests
Workers == {"w1", "w2"}

Idle == [op |-> "idle"]

\* ------------------------------------------------------------------ pure functions
\* the VIP test of classify_email (src/app.py:81-82): the text after the last
\* '@', lower-cased, contains a configured VIP domain
is_vip_exact(sender_email) ==
    LET parts == split(sender_email, "@") IN
    lower(parts[Len(parts)]) \in vip_domains

is_vip(sender_email) ==
    LET parts == split(sender_email, "@")
        domain == lower(parts[Len(parts)])
    IN  \E vip \in vip_domains : contains(vip, domain)

\* the staff test of classify_email (src/app.py:91)
is_staff_case_sensitive(sender_email) == sender_email \in email_accounts

is_staff(sender_email) == lower(sender_email) \in {lower(e) : e \in email_accounts}

\* auto_respond_categories (src/app.py:128)
auto_respond_categories == {"volunteer_interest", "program_inquiry", "general_support"}

\* the routing test of classify_email (src/app.py:129); `and` evaluates the
\* confidence only for a category of the list
auto_respond_from_70(result) ==
    result.classification \in auto_respond_categories /\ result.confidence >= 70

auto_respond(result) ==
    result.classification \in auto_respond_categories /\ result.confidence > 70

\* What makes the try block of classify_email raise (src/app.py:79-133): a
\* sender that is None (None has no split), a failed call or a reply that is
\* not JSON, a JSON object without "classification", or one without
\* "confidence" when line 129 comes to read it.
classify_raises_before_call(sender_email) == sender_email = None

classify_raises_on_reply(reply) ==
    \/ "raise" \in DOMAIN reply
    \/ "classification" \notin DOMAIN reply
    \/ /\ reply.classification \in auto_respond_categories
       /\ "confidence" \notin DOMAIN reply

\* the dictionary of the except branch (src/app.py:135-142)
classify_error ==
    [classification |-> "error", confidence |-> 0,
     action |-> "human_review", error |-> "exception"]

\* classify_email (src/app.py:77-142); reply is what the classifier call returns.
classify_email(sender_email, subject, content, reply) ==
    IF classify_raises_before_call(sender_email)
    THEN classify_error
    ELSE IF is_vip(sender_email)
    THEN [classification |-> "vip_contact", confidence |-> 100,
          action |-> "human_review_required", reason |-> "VIP domain detected"]
    ELSE IF is_staff(sender_email)
    THEN [classification |-> "staff_communication", confidence |-> 95,
          action |-> "human_review_required", reason |-> "Internal staff communication"]
    ELSE IF classify_raises_on_reply(reply)
    THEN classify_error
    ELSE [a \in DOMAIN reply \cup {"action"} |->
              IF a = "action"
              THEN IF auto_respond(reply) THEN "generate_for_approval" ELSE "human_review"
              ELSE reply[a]]

\* generate_response whose except branch hands back the text of the exception
generate_response_error_text(classification, sender_email, subject, content, reply) ==
    IF "raise" \in DOMAIN reply THEN "exception" ELSE reply.content

\* generate_response (src/app.py:144-177)
generate_response(classification, sender_email, subject, content, reply) ==
    IF "raise" \in DOMAIN reply THEN Fallback ELSE reply.content

\* the sender normalisation of process_emails (src/app.py:315-317)
extract_sender(sender) ==
    IF hasChar("<", sender) /\ hasChar(">", sender)
    THEN split(split(sender, "<")[2], ">")[1]
    ELSE sender

\* the message send_response builds (src/app.py:228-237)
build_message(config, to_email, subject, body, original_subject) ==
    [from |-> config.email,
     to |-> to_email,
     subject |-> IF original_subject # <<>>
                    /\ ~(Len(original_subject) > 0 /\ original_subject[1] = "Re:")
                 THEN <<"Re:">> \o original_subject
                 ELSE subject,
     body |-> body]

\* `'id': len(pending_responses) + 1` (src/app.py:339)
next_id(pending) == Len(pending) + 1

\* find_response with the loop variable used after the loop: when no entry
\* matches, the last entry looked at is taken
find_response_leaky(pending, response_id) ==
    IF \E i \in 1..Len(pending) : pending[i].id = response_id
    THEN CHOOSE i \in 1..Len(pending) :
             pending[i].id = response_id
             /\ \A j \in 1..(i - 1) : pending[j].id # response_id
    ELSE Len(pending)

\* the lookup loop of approve_response (src/app.py:801-805): index of the first
\* entry with that id, 0 when there is none
find_response(pending, response_id) ==
    IF \E i \in 1..Len(pending) : pending[i].id = response_id
    THEN CHOOSE i \in 1..Len(pending) :
             pending[i].id = response_id
             /\ \A j \in 1..(i - 1) : pending[j].id # response_id
    ELSE 0

\* remove_response with the test inverted (== for !=)
remove_response_inverted(pending, response_id) ==
    SelectSeq(pending, LAMBDA r : r.id = response_id)

\* `[r for r in pending_responses if r['id'] != response_id]` (src/app.py:823, 839)
remove_response(pending, response_id) ==
    SelectSeq(pending, LAMBDA r : r.id # response_id)

\* set_generated without the test on the id: every entry gets the new text
set_generated_all(pending, response_id, new_response) ==
    [i \in 1..Len(pending) |->
        [pending[i] EXCEPT !.generated_response = new_response]]

\* the update loop of edit_response (src/app.py:853-856): the first match only
set_generated(pending, response_id, new_response) ==
    LET i == find_response(pending, response_id) IN
    IF i = 0 THEN pending
    ELSE [pending EXCEPT ![i].generated_response = new_response]

\* insert at the head, never cut
log_activity_unbounded(log, activity) == <<activity>> \o log

\* insert at the head, on overflow drop the record that was at the head
log_activity_drops_head(log, activity) ==
    IF Len(log) >= 10 THEN <<activity>> \o SubSeq(log, 2, 10) ELSE <<activity>> \o log

\* insert at the head, keep the first ten (src/app.py:365-367)
log_activity(log, activity) ==
    LET l == <<activity>> \o log IN
    IF Len(l) > 10 THEN SubSeq(l, 1, 10) ELSE l

\* ------------------------------------------------------------------ mailbox fetch
RECURSIVE ascending(_)
\* the identifiers of an IMAP SEARCH answer, in ascending order
ascending(S) ==
    IF S = {} THEN <<>>
    ELSE LET m == CHOOSE x \in S : \A y \in S : x <= y
         IN  <<m>> \o ascending(S \ {m})

\* The answers of SEARCH UNSEEN: any set of the identifiers not yet in `seen`,
\* alone or together with the ones in `seen` (the code skips each of those the
\* same way, so reporting some of them or all of them leads to the same step).
unseen_answers(ids, seen) ==
    { V \cup W : V \in SUBSET (ids \ seen), W \in {{}, ids \cap seen} }

\* What the server does during one fetch_new_emails call: whether the login
\* works, the status of SEARCH, the identifiers it reports unseen, whether a
\* FETCH answers NO or raises (a dropped connection, a message that cannot be
\* parsed), and whether close/logout raises.
\* One thing goes wrong per call at most: fault names it, at the message it
\* hits, which is one the code asks for (it asks for none in `seen`).
\* `ids` are the identifiers the mailboxes hold.
FetchScenarios(ids, seen) ==
    { [connect |-> FALSE, search |-> "OK", unseen |-> {}, fault |-> "none", at |-> 0],
      [connect |-> TRUE, search |-> "NO", unseen |-> {}, fault |-> "none", at |-> 0] }
    \cup { [connect |-> TRUE, search |-> "OK", unseen |-> U, fault |-> f, at |-> 0]
           : U \in unseen_answers(ids, seen), f \in {"none", "close_raises"} }
    \cup UNION { [connect : {TRUE}, search : {"OK"}, unseen : {U},
                  fault : {"NO", "raise"}, at : U \ seen]
                : U \in unseen_answers(ids, seen) }

\* the status of `mail.fetch(email_id, '(RFC822)')` (src/app.py:269)
fetch_status(env, email_id) ==
    IF env.at = email_id THEN env.fault ELSE "OK"

\* the dictionary built for one fetched message (src/app.py:279-286)
email_data(config, email_id) ==
    [id |-> email_id,
     sender |-> Inbox(config.email, email_id).sender,
     subject |-> Inbox(config.email, email_id).subject,
     body |-> Inbox(config.email, email_id).body,
     account |-> config.email]

\* mark_seen left out
mark_seen_skipped(seen, email_id) == seen

\* `processed_emails.add(email_id)` (src/app.py:289)
mark_seen(seen, email_id) == seen \cup {email_id}

\* `if email_id in processed_emails: continue` (src/app.py:266-267)
already_seen(seen, config, email_id) == email_id \in seen

RECURSIVE fetch_loop(_, _, _, _, _)
\* the for loop of fetch_new_emails (src/app.py:265-291)
fetch_loop(config, email_ids, seen, emails, env) ==
    IF email_ids = <<>> THEN [emails |-> emails, seen |-> seen, raised |-> FALSE]
    ELSE LET email_id == Head(email_ids) IN
         IF already_seen(seen, config, email_id)
         THEN fetch_loop(config, Tail(email_ids), seen, emails, env)
         ELSE IF fetch_status(env, email_id) = "raise"
         THEN [emails |-> emails, seen |-> seen, raised |-> TRUE]
         ELSE IF fetch_status(env, email_id) = "OK"
         THEN fetch_loop(config, Tail(email_ids), mark_seen(seen, email_id),
                         Append(emails, email_data(config, email_id)), env)
         ELSE fetch_loop(config, Tail(email_ids), seen, emails, env)

\* fetch_new_emails (src/app.py:249-300): the list it returns and
\* processed_emails as it leaves it
fetch_new_emails(config, seen, env) ==
    IF ~env.connect \/ env.search # "OK"
    THEN [new_emails |-> <<>>, processed_emails |-> seen]
    ELSE LET r == fetch_loop(config, ascending(env.unseen), seen, <<>>, env) IN
         [new_emails |-> IF r.raised \/ env.fault = "close_raises" THEN <<>> ELSE r.emails,
          processed_emails |-> r.seen]

\* ------------------------------------------------------------------ initial state
\* the state after the module is loaded, the mailboxes holding the messages `ids`
InitWith(ids) ==
    /\ email_monitor_running = FALSE
    /\ processed_emails = {}
    /\ recent_email_activity = <<>>
    /\ pending_responses = <<>>
    /\ monitor_threads = 0
    /\ poll_pc = "not_started"
    /\ accounts_left = <<>>
    /\ new_emails = <<>>
    /\ clock = 0
    /\ outbox = EmptyBag
    /\ handed = [k \in Mailboxes \X ids |-> 0]
    /\ assigned = {}
    /\ last_edit = [response_id \in RequestIds |-> "none"]
    /\ last = [op |-> "init"]
    /\ req = [w \in Workers |-> Idle]
    /\ requests = 0

Init == InitWith(MoreMsgIds)

\* ------------------------------------------------------------------ monitoring
\* POST /api/start_monitoring -> start_email_monitoring (src/app.py:777-790,
\* 384-392); the mailbox password is configured.
StartMonitoring ==
    /\ IF ~email_monitor_running
       THEN /\ email_monitor_running' = TRUE
            /\ monitor_threads' = monitor_threads + 1
            /\ poll_pc' = "loop"
       ELSE UNCHANGED <<email_monitor_running, monitor_threads, poll_pc>>
    /\ last' = [op |-> "start_monitoring", status |-> 200]
    /\ UNCHANGED <<processed_emails, recent_email_activity, pending_responses,
                   accounts_left, new_emails, clock, outbox, handed, assigned, req, requests,
                   last_edit>>

\* the thread enters email_monitor_loop, tests the flag and calls
\* process_emails for the first cycle (src/app.py:376-378)
BeginCycle ==
    /\ poll_pc = "loop"
    /\ email_monitor_running
    /\ poll_pc' = "cycle"
    /\ accounts_left' = MailboxOrder
    /\ last' = [op |-> "begin_cycle"]
    /\ UNCHANGED <<email_monitor_running, processed_emails, recent_email_activity,
                   pending_responses, monitor_threads, new_emails, clock, outbox,
                   handed, assigned, req, requests, last_edit>>

\* process_emails takes the next mailbox, whose password is set, and fetches
\* it while the server behaves as `env` says (src/app.py:306-310)
FetchMailboxWith(env) ==
    /\ poll_pc = "cycle"
    /\ new_emails = <<>>
    /\ accounts_left # <<>>
    /\ EMAIL_CONFIG[Head(accounts_left)].password
    /\ LET r == fetch_new_emails(EMAIL_CONFIG[Head(accounts_left)], processed_emails, env) IN
       /\ new_emails' = r.new_emails
       /\ processed_emails' = r.processed_emails
       /\ last' = [op |-> "fetch",
                   reported_seen |-> env.unseen \cap processed_emails # {}]
    /\ accounts_left' = Tail(accounts_left)
    /\ UNCHANGED <<email_monitor_running, recent_email_activity, pending_responses,
                   monitor_threads, poll_pc, clock, outbox, handed, assigned, req, requests,
                   last_edit>>

\* process_emails skips a mailbox without password (src/app.py:307-308)
SkipMailbox ==
    /\ poll_pc = "cycle"
    /\ new_emails = <<>>
    /\ accounts_left # <<>>
    /\ ~EMAIL_CONFIG[Head(accounts_left)].password
    /\ accounts_left' = Tail(accounts_left)
    /\ last' = [op |-> "skip_mailbox"]
    /\ UNCHANGED <<email_monitor_running, processed_emails, recent_email_activity,
                   pending_responses, monitor_threads, poll_pc, new_emails, clock,
                   outbox, handed, assigned, req, requests, last_edit>>

\* one visit of process_emails to the next mailbox; the mailboxes hold the
\* messages `ids`
FetchMailboxOf(ids) ==
    IF accounts_left # <<>> /\ ~EMAIL_CONFIG[Head(accounts_left)].password
    THEN SkipMailbox
    ELSE \E env \in FetchScenarios(ids, processed_emails) : FetchMailboxWith(env)

FetchMailbox == FetchMailboxOf(MsgIds)

\* ------------------------------------------------------------------ pipeline
\* the draft process_emails builds (src/app.py:338-349)
new_pending_response(pending, email, sender_email, response_body, result, now) ==
    [id |-> next_id(pending),
     sender |-> sender_email,
     subject |-> email.subject,
     original_body |-> email.body,
     generated_response |-> response_body,
     classification |-> result.classification,
     confidence |-> Get(result, "confidence", 0),
     timestamp |-> now,
     status |-> "pending_approval",
     account |-> email.account]

\* the activity record process_emails builds (src/app.py:355-363)
new_activity(email, sender_email, result) ==
    [from |-> sender_email,
     subject |-> email.subject,
     classification |-> Get(result, "classification", "unknown"),
     status |-> IF Get(result, "action", "") = "generate_for_approval"
                THEN "response_pending_approval"
                ELSE "human_review_required",
     sentiment |-> Get(result, "sentiment", "neutral"),
     time |-> "Just now",
     account |-> email.account]

\* One iteration of the message loop of process_emails (src/app.py:312-370):
\* the queue, the log and the clock as it leaves them. A message without a From
\* header raises at line 316 and the except clause drops it.
\* the test that sends a classified message to the responder (src/app.py:330)
routes_to_approval_unless_staff(result) ==
    Get(result, "action", "") # "human_review_required"

routes_to_approval(result) == Get(result, "action", "") = "generate_for_approval"

handle_email(email, pending, activity, now, creply, greply) ==
    IF email.sender = None
    THEN [pending_responses |-> pending, recent_email_activity |-> activity,
          clock |-> now, outcome |-> "exception", responder_called |-> FALSE]
    ELSE LET \* lines 329-367, with the locals of lines 315-326 in hand
             routed(sender_email, result) ==
                 LET enqueue == routes_to_approval(result)
                     response_body == generate_response(result.classification, sender_email,
                                                        email.subject, email.body, greply)
                 IN  [pending_responses |->
                          IF enqueue
                          THEN Append(pending,
                                      new_pending_response(pending, email, sender_email,
                                                           response_body, result, now + 1))
                          ELSE pending,
                      recent_email_activity |->
                          log_activity(activity, new_activity(email, sender_email, result)),
                      clock |-> IF enqueue THEN now + 1 ELSE now,
                      outcome |-> result.action,
                      responder_called |-> enqueue]
             \* classification_result is assigned once (lines 320-324)
             classified(sender_email) ==
                 CHOOSE r \in { routed(sender_email, result) :
                                  result \in {classify_email(sender_email, email.subject,
                                                             email.body, creply)} } : TRUE
         IN  \* sender_email is assigned once (lines 315-317)
             CHOOSE r \in { classified(sender_email) :
                              sender_email \in {extract_sender(email.sender)} } : TRUE

\* process_emails handles the next fetched message, the classifier and the
\* responder answering creply and greply if they are called
ProcessEmailWith(creply, greply) ==
    /\ poll_pc = "cycle"
    /\ new_emails # <<>>
    /\   LET email == Head(new_emails)
             r == handle_email(email, pending_responses, recent_email_activity,
                               clock, creply, greply)
         IN  /\ pending_responses' = r.pending_responses
             /\ recent_email_activity' = r.recent_email_activity
             /\ clock' = r.clock
             /\ handed' = [handed EXCEPT ![<<email.account, email.id>>] = @ + 1]
             /\ assigned' = IF r.clock # clock
                            THEN assigned \cup {r.pending_responses[Len(r.pending_responses)].id}
                            ELSE assigned
             /\ last' = [op |-> "process", outcome |-> r.outcome,
                         responder_called |-> r.responder_called,
                         log_before |-> Len(recent_email_activity)]
    /\ new_emails' = Tail(new_emails)
    /\ UNCHANGED <<email_monitor_running, processed_emails, monitor_threads, poll_pc,
                   accounts_left, outbox, req, requests, last_edit>>

ProcessEmail ==
    \E creply \in ClassifierReplies, greply \in GeneratorReplies :
        ProcessEmailWith(creply, greply)

\* process_emails returns and the thread ends
EndCycle_thread_ends ==
    /\ poll_pc = "cycle"
    /\ new_emails = <<>>
    /\ accounts_left = <<>>
    /\ poll_pc' = "ended"
    /\ last' = [op |-> "end_cycle"]
    /\ UNCHANGED <<email_monitor_running, processed_emails, recent_email_activity,
                   pending_responses, monitor_threads, accounts_left, new_emails,
                   clock, outbox, handed, assigned, req, requests, last_edit>>

\* process_emails returns; email_monitor_loop sleeps, tests the flag again and
\* calls process_emails for the next cycle (src/app.py:376-382)
EndCycle ==
    /\ poll_pc = "cycle"
    /\ new_emails = <<>>
    /\ accounts_left = <<>>
    /\ email_monitor_running
    /\ accounts_left' = MailboxOrder
    /\ last' = [op |-> "end_cycle"]
    /\ UNCHANGED <<email_monitor_running, processed_emails, recent_email_activity,
                   pending_responses, monitor_threads, poll_pc, new_emails,
                   clock, outbox, handed, assigned, req, requests, last_edit>>

\* ------------------------------------------------------------------ approval queue
\* send_response (src/app.py:221-247): TRUE when the message went out
send_response(smtp) == smtp = "sent"

\* approve_response removing the entry before it knows whether the send worked
approve_response_remove_first(pending, sent, response_id, smtp) ==
    LET i == find_response(pending, response_id) IN
    IF i = 0
    THEN [pending_responses |-> pending, outbox |-> sent, status |-> 404]
    ELSE LET pending_response == pending[i]
             config == EMAIL_CONFIG[pending_response.account]
             msg == build_message(config, pending_response.sender,
                                  pending_response.subject,
                                  pending_response.generated_response,
                                  pending_response.subject)
         IN  IF send_response(smtp)
             THEN [pending_responses |-> remove_response(pending, response_id),
                   outbox |-> sent (+) SetToBag({[msg |-> msg,
                                                  draft |-> pending_response.timestamp]}),
                   status |-> 200]
             ELSE [pending_responses |-> remove_response(pending, response_id),
                   outbox |-> sent, status |-> 500]

\* approve_response (src/app.py:792-828), run without interruption: the queue
\* and the outbox as it leaves them, and the HTTP status it answers with
approve_response(pending, sent, response_id, smtp) ==
    LET i == find_response(pending, response_id) IN
    IF i = 0
    THEN [pending_responses |-> pending, outbox |-> sent, status |-> 404]
    ELSE LET pending_response == pending[i] IN
         IF pending_response.account \notin DOMAIN EMAIL_CONFIG
         THEN [pending_responses |-> pending, outbox |-> sent, status |-> 500]
         ELSE LET config == EMAIL_CONFIG[pending_response.account]
                  msg == build_message(config, pending_response.sender,
                                       pending_response.subject,
                                       pending_response.generated_response,
                                       pending_response.subject)
              IN  IF send_response(smtp)
                  THEN [pending_responses |-> remove_response(pending, response_id),
                        outbox |-> sent (+) SetToBag({[msg |-> msg,
                                                       draft |-> pending_response.timestamp]}),
                        status |-> 200]
                  ELSE [pending_responses |-> pending, outbox |-> sent, status |-> 500]

\* reject_response (src/app.py:830-841)
reject_response(pending, response_id) ==
    [pending_responses |-> remove_response(pending, response_id), status |-> 200]

\* edit_response (src/app.py:843-858)
edit_response(pending, response_id, new_response) ==
    IF find_response(pending, response_id) = 0
    THEN [pending_responses |-> pending, status |-> 404]
    ELSE [pending_responses |-> set_generated(pending, response_id, new_response),
          status |-> 200]

\* POST /api/approve_response, with the outcome of the SMTP exchange
ApproveWith(response_id, smtp) ==
      LET r == approve_response(pending_responses, outbox, response_id, smtp) IN
      /\ pending_responses' = r.pending_responses
      /\ outbox' = r.outbox
      /\ last' = [op |-> "approve", status |-> r.status]
      /\ UNCHANGED <<email_monitor_running, processed_emails, recent_email_activity,
                     monitor_threads, poll_pc, accounts_left, new_emails, clock, handed, assigned, req, requests,
                     last_edit>>

\* The SMTP exchanges an approval can meet: send_response is only called for
\* an entry that was found (src/app.py:800-812), so an absent id meets one.
smtp_exchanges(pending, response_id) ==
    IF find_response(pending, response_id) = 0
    THEN {CHOOSE o \in SmtpOutcomes : TRUE}
    ELSE SmtpOutcomes

Approve(response_id) ==
    \E smtp \in smtp_exchanges(pending_responses, response_id) :
        ApproveWith(response_id, smtp)

\* reject_response mailing the draft it discards
Reject_sends(response_id) ==
    LET r == reject_response(pending_responses, response_id)
        i == find_response(pending_responses, response_id)
    IN
    /\ pending_responses' = r.pending_responses
    /\ outbox' = IF i = 0
                 THEN outbox
                 ELSE outbox (+) SetToBag({[msg |-> build_message(
                                                EMAIL_CONFIG[pending_responses[i].account],
                                                pending_responses[i].sender,
                                                pending_responses[i].subject,
                                                pending_responses[i].generated_response,
                                                pending_responses[i].subject),
                                            draft |-> pending_responses[i].timestamp]})
    /\ last' = [op |-> "reject", status |-> r.status, found |-> i # 0]
    /\ UNCHANGED <<email_monitor_running, processed_emails, recent_email_activity,
                   monitor_threads, poll_pc, accounts_left, new_emails, clock,
                   handed, assigned, req, requests, last_edit>>

\* POST /api/reject_response
Reject(response_id) ==
    LET r == reject_response(pending_responses, response_id) IN
    /\ pending_responses' = r.pending_responses
    /\ last' = [op |-> "reject", status |-> r.status,
                found |-> find_response(pending_responses, response_id) # 0]
    /\ UNCHANGED <<email_monitor_running, processed_emails, recent_email_activity,
                   monitor_threads, poll_pc, accounts_left, new_emails, clock, outbox,
                   handed, assigned, req, requests, last_edit>>

\* POST /api/edit_response
Edit(response_id, new_response) ==
    LET r == edit_response(pending_responses, response_id, new_response) IN
    /\ pending_responses' = r.pending_responses
    /\ last' = [op |-> "edit", status |-> r.status]
    /\ UNCHANGED <<email_monitor_running, processed_emails, recent_email_activity,
                   monitor_threads, poll_pc, accounts_left, new_emails, clock, outbox,
                   handed, assigned, req, requests, last_edit>>

\* POST /api/edit_response, the text of an accepted edit being noted under the
\* id the request named
EditNoted(response_id, new_response) ==
    LET r == edit_response(pending_responses, response_id, new_response) IN
    /\ pending_responses' = r.pending_responses
    /\ last' = [op |-> "edit", status |-> r.status]
    /\ last_edit' = IF r.status = 200
                    THEN [last_edit EXCEPT ![response_id] = new_response]
                    ELSE last_edit
    /\ UNCHANGED <<email_monitor_running, processed_emails, recent_email_activity,
                   monitor_threads, poll_pc, accounts_left, new_emails, clock, outbox,
                   handed, assigned, req, requests>>

Next ==
    \/ StartMonitoring
    \/ BeginCycle
    \/ FetchMailbox
    \/ ProcessEmail
    \/ EndCycle
    \/ \E response_id \in RequestIds : Approve(response_id)
    \/ \E response_id \in RequestIds : Reject(response_id)
    \/ \E response_id \in RequestIds, new_response \in EditTexts :
         Edit(response_id, new_response)

Spec == Init /\ [][Next]_vars

\* The monitor thread alone, with the requests that start it. It is a thread of
\* its own and is scheduled again and again: a step of email_monitor_loop that
\* can be taken is taken (src/app.py:390-391).
NextLoop ==
    \/ StartMonitoring
    \/ BeginCycle
    \/ FetchMailbox
    \/ ProcessEmail
    \/ EndCycle

SpecLive ==
    /\ Init /\ [][NextLoop]_vars
    /\ WF_vars(BeginCycle)
    /\ WF_vars(FetchMailbox)
    /\ WF_vars(ProcessEmail)
    /\ WF_vars(EndCycle)

\* the same program, last_edit keeping the text of the last accepted edit of
\* each id
NextEdit ==
    \/ StartMonitoring
    \/ BeginCycle
    \/ FetchMailbox
    \/ ProcessEmail
    \/ EndCycle
    \/ \E response_id \in RequestIds : Approve(response_id)
    \/ \E response_id \in RequestIds : Reject(response_id)
    \/ \E response_id \in RequestIds, new_response \in EditTexts :
         EditNoted(response_id, new_response)

SpecEdit == Init /\ [][NextEdit]_vars

\* the same program, the mailboxes holding one message more
FetchMailboxMore == FetchMailboxOf(MoreMsgIds)

NextMore ==
    \/ StartMonitoring
    \/ BeginCycle
    \/ FetchMailboxMore
    \/ ProcessEmail
    \/ EndCycle
    \/ \E response_id \in RequestIds : Approve(response_id)
    \/ \E response_id \in RequestIds : Reject(response_id)
    \/ \E response_id \in RequestIds, new_response \in EditTexts :
         Edit(response_id, new_response)

SpecMore == Init /\ [][NextMore]_vars

\* ------------------------------------------------------------------ interleaved handlers
\* The request handlers take no lock (src/app.py:792-858), the web server runs
\* them on several threads and the monitor runs on its own thread
\* (src/app.py:390): below, each handler is cut where another thread can run in
\* between: around the blocking send, and between building a list and storing
\* it into the global.

\* at most this many approve, reject and edit requests are accepted in the
\* interleaved specification
MaxRequests == 2

\* `resp['generated_response'] = new_response` changes the dictionary itself, so
\* every list that holds the same dictionary shows the new text; a dictionary is
\* identified by its timestamp.
alias_edit(pending, stamp, new_response) ==
    [i \in 1..Len(pending) |->
        IF pending[i].timestamp = stamp
        THEN [pending[i] EXCEPT !.generated_response = new_response]
        ELSE pending[i]]

\* approve_response up to the lookup (src/app.py:797-808)
ApproveLookup(w, response_id) ==
    /\ req[w] = Idle
    /\ requests < MaxRequests
    /\ requests' = requests + 1
    /\ LET i == find_response(pending_responses, response_id) IN
       IF i = 0
       THEN /\ req' = req
            /\ last' = [op |-> "approve", status |-> 404]
       ELSE /\ req' = [req EXCEPT ![w] = [op |-> "approve", pc |-> "send",
                                          id |-> response_id,
                                          found |-> pending_responses[i]]]
            /\ last' = [op |-> "approve_lookup"]
    /\ UNCHANGED <<email_monitor_running, processed_emails, recent_email_activity,
                   pending_responses, monitor_threads, poll_pc, accounts_left,
                   new_emails, clock, outbox, handed, assigned, last_edit>>

\* approve_response sends the draft it looked up (src/app.py:811-819) and, when
\* that worked, builds the list without it (the right-hand side of line 823)
ApproveSend(w) ==
    /\ req[w].op = "approve"
    /\ req[w].pc = "send"
    /\ \E smtp \in SmtpOutcomes :
         LET pending_response == req[w].found
             config == EMAIL_CONFIG[pending_response.account]
             msg == build_message(config, pending_response.sender,
                                  pending_response.subject,
                                  pending_response.generated_response,
                                  pending_response.subject)
         IN  IF send_response(smtp)
             THEN /\ outbox' = outbox (+) SetToBag({[msg |-> msg,
                                                     draft |-> pending_response.timestamp]})
                  /\ req' = [req EXCEPT ![w] =
                                [op |-> "approve", pc |-> "store", id |-> req[w].id,
                                 pending |-> remove_response(pending_responses, req[w].id)]]
                  /\ last' = [op |-> "approve_send"]
             ELSE /\ outbox' = outbox
                  /\ req' = [req EXCEPT ![w] = Idle]
                  /\ last' = [op |-> "approve", status |-> 500]
    /\ UNCHANGED <<email_monitor_running, processed_emails, recent_email_activity,
                   pending_responses, monitor_threads, poll_pc, accounts_left,
                   new_emails, clock, handed, assigned, requests, last_edit>>

\* approve_response stores the list it built and answers (src/app.py:823-824)
ApproveStore(w) ==
    /\ req[w].op = "approve"
    /\ req[w].pc = "store"
    /\ pending_responses' = req[w].pending
    /\ req' = [req EXCEPT ![w] = Idle]
    /\ last' = [op |-> "approve", status |-> 200]
    /\ UNCHANGED <<email_monitor_running, processed_emails, recent_email_activity,
                   monitor_threads, poll_pc, accounts_left, new_emails, clock, outbox,
                   handed, assigned, requests, last_edit>>

\* reject_response builds the list without the id (right-hand side of line 839)
RejectFilter(w, response_id) ==
    /\ req[w] = Idle
    /\ requests < MaxRequests
    /\ requests' = requests + 1
    /\ req' = [req EXCEPT ![w] =
                  [op |-> "reject", pc |-> "store", id |-> response_id,
                   pending |-> remove_response(pending_responses, response_id)]]
    /\ last' = [op |-> "reject_filter"]
    /\ UNCHANGED <<email_monitor_running, processed_emails, recent_email_activity,
                   pending_responses, monitor_threads, poll_pc, accounts_left,
                   new_emails, clock, outbox, handed, assigned, last_edit>>

\* reject_response stores the list it built and answers (src/app.py:839-841)
RejectStore(w) ==
    /\ req[w].op = "reject"
    /\ req[w].pc = "store"
    /\ pending_responses' = req[w].pending
    /\ req' = [req EXCEPT ![w] = Idle]
    /\ last' = [op |-> "reject", status |-> 200, id |-> req[w].id]
    /\ UNCHANGED <<email_monitor_running, processed_emails, recent_email_activity,
                   monitor_threads, poll_pc, accounts_left, new_emails, clock, outbox,
                   handed, assigned, requests, last_edit>>

\* edit_response (src/app.py:843-858); the assignment reaches the dictionary
\* wherever a thread holds it
EditShared(w, response_id, new_response) ==
    /\ req[w] = Idle
    /\ requests < MaxRequests
    /\ requests' = requests + 1
    /\ LET i == find_response(pending_responses, response_id) IN
       IF i = 0
       THEN /\ UNCHANGED <<pending_responses, req>>
            /\ last' = [op |-> "edit", status |-> 404]
       ELSE LET stamp == pending_responses[i].timestamp IN
            /\ pending_responses' = alias_edit(pending_responses, stamp, new_response)
            /\ req' = [v \in Workers |->
                         IF "found" \in DOMAIN req[v] /\ req[v].found.timestamp = stamp
                         THEN [req[v] EXCEPT !.found.generated_response = new_response]
                         ELSE IF "pending" \in DOMAIN req[v]
                         THEN [req[v] EXCEPT
                                  !.pending = alias_edit(@, stamp, new_response)]
                         ELSE req[v]]
            /\ last' = [op |-> "edit", status |-> 200]
    /\ UNCHANGED <<email_monitor_running, processed_emails, recent_email_activity,
                   monitor_threads, poll_pc, accounts_left, new_emails, clock, outbox,
                   handed, assigned, last_edit>>

\* start_email_monitoring reads the flag (src/app.py:388)
StartCheck(w) ==
    /\ req[w] = Idle
    /\ IF email_monitor_running
       THEN /\ req' = req
            /\ last' = [op |-> "start_monitoring", status |-> 200]
       ELSE /\ req' = [req EXCEPT ![w] = [op |-> "start", pc |-> "set"]]
            /\ last' = [op |-> "start_check"]
    /\ UNCHANGED <<email_monitor_running, processed_emails, recent_email_activity,
                   pending_responses, monitor_threads, poll_pc, accounts_left,
                   new_emails, clock, outbox, handed, assigned, requests, last_edit>>

\* start_email_monitoring sets the flag and starts a thread (src/app.py:389-391);
\* poll_pc follows the first thread started
StartSet(w) ==
    /\ req[w].op = "start"
    /\ email_monitor_running' = TRUE
    /\ monitor_threads' = monitor_threads + 1
    /\ poll_pc' = IF poll_pc = "not_started" THEN "loop" ELSE poll_pc
    /\ req' = [req EXCEPT ![w] = Idle]
    /\ last' = [op |-> "start_monitoring", status |-> 200]
    /\ UNCHANGED <<processed_emails, recent_email_activity, pending_responses,
                   accounts_left, new_emails, clock, outbox, handed, assigned, requests,
                   last_edit>>

NextConc ==
    \/ BeginCycle
    \/ FetchMailbox
    \/ ProcessEmail
    \/ EndCycle
    \/ \E w \in Workers : StartCheck(w)
    \/ \E w \in Workers : StartSet(w)
    \/ \E w \in Workers, response_id \in RequestIds : ApproveLookup(w, response_id)
    \/ \E w \in Workers : ApproveSend(w)
    \/ \E w \in Workers : ApproveStore(w)
    \/ \E w \in Workers, response_id \in RequestIds : RejectFilter(w, response_id)
    \/ \E w \in Workers : RejectStore(w)
    \/ \E w \in Workers, response_id \in RequestIds, new_response \in EditTexts :
         EditShared(w, response_id, new_response)

SpecConc == Init /\ [][NextConc]_vars

\* ------------------------------------------------------------------ test endpoints
\* senders a client can put in the JSON body of /api/test/classify
TestSenders ==
    { Str1, Str2, Str3, Str4, None, <<>>,
      <<"p", "@", "V", ".", "G">>,
      <<"v", ".", "g", "@", "x", ".", "o">>,
      <<"p", "@", "v", ".", "g", "@", "x", ".", "o">>,
      <<"v", ".", "g">>,
      <<"I", "@", "O", ".", "T">> }

\* what the chat-completion call can come back with: an exception (of the call
\* or of json.loads), or a JSON object with all, or some, of the keys asked for
TestReplies ==
    { [raise |-> TRUE],
      [classification |-> "volunteer_interest", confidence |-> 70],
      [classification |-> "volunteer_interest", confidence |-> 71],
      [classification |-> "program_inquiry", confidence |-> 100, sentiment |-> "neutral"],
      [classification |-> "general_support", confidence |-> 71],
      [classification |-> "general_support", confidence |-> 0],
      [classification |-> "partnership", confidence |-> 90],
      [classification |-> "complaint", confidence |-> 100, sentiment |-> "negative"],
      [classification |-> "partnership"],
      [classification |-> "volunteer_interest"],
      [confidence |-> 90] }

\* whether classify_email gets as far as the chat-completion call
\* (src/app.py:79-118)
classifier_called(sender_email) ==
    /\ ~classify_raises_before_call(sender_email)
    /\ ~is_vip(sender_email)
    /\ ~is_staff(sender_email)

\* POST /api/test/classify (src/app.py:860-869)
TestClassify(sender, reply) ==
    /\ last' = [op |-> "test_classify", sender |-> sender, reply |-> reply,
                called |-> classifier_called(sender),
                result |-> classify_email(sender, <<"x">>, "b", reply)]
    /\ UNCHANGED <<email_monitor_running, processed_emails, recent_email_activity,
                   pending_responses, monitor_threads, poll_pc, accounts_left,
                   new_emails, clock, outbox, handed, assigned, req, requests, last_edit>>

NextTest == \E sender \in TestSenders, reply \in TestReplies : TestClassify(sender, reply)

SpecTest == Init /\ [][NextTest]_vars

\* POST /api/test/response (src/app.py:871-881)
TestResponse(greply) ==
    /\ last' = [op |-> "test_response",
                response |-> generate_response("volunteer_interest", Str1, <<"x">>, "b", greply)]
    /\ UNCHANGED <<email_monitor_running, processed_emails, recent_email_activity,
                   pending_responses, monitor_threads, poll_pc, accounts_left,
                   new_emails, clock, outbox, handed, assigned, req, requests, last_edit>>

\* the body of the JSON answer of POST /api/process_email (src/app.py:889-909):
\* response is null, written <<>>, unless a reply was generated
process_email(sender, subject, content, creply, greply) ==
    LET answer(classification) ==
            [classification |-> classification,
             response |->
                 IF classification.action = "generate_for_approval"
                 THEN <<generate_response(classification.classification, sender,
                                          subject, content, greply)>>
                 ELSE <<>>]
    IN  CHOOSE r \in { answer(classification) :
                         classification \in {classify_email(sender, subject, content,
                                                            creply)} } : TRUE

\* process_email putting the reply it generated on the approval queue
ProcessEmailRequest_enqueues(sender, creply, greply) ==
    LET answer == process_email(sender, <<"x">>, "b", creply, greply) IN
    /\ last' = [op |-> "process_email", answer |-> answer]
    /\ pending_responses' =
          IF answer.response = <<>>
          THEN pending_responses
          ELSE Append(pending_responses,
                      [id |-> next_id(pending_responses), sender |-> sender,
                       subject |-> <<"x">>, original_body |-> "b",
                       generated_response |-> answer.response[1],
                       classification |-> answer.classification.classification,
                       confidence |-> answer.classification.confidence,
                       timestamp |-> clock, status |-> "pending_approval",
                       account |-> "info"])
    /\ UNCHANGED <<email_monitor_running, processed_emails, recent_email_activity,
                   monitor_threads, poll_pc, accounts_left, new_emails, clock, outbox,
                   handed, assigned, req, requests, last_edit>>

\* POST /api/process_email (src/app.py:883-909)
ProcessEmailRequest(sender, creply, greply) ==
    /\ last' = [op |-> "process_email",
                answer |-> process_email(sender, <<"x">>, "b", creply, greply)]
    /\ UNCHANGED <<email_monitor_running, processed_emails, recent_email_activity,
                   pending_responses, monitor_threads, poll_pc, accounts_left,
                   new_emails, clock, outbox, handed, assigned, req, requests, last_edit>>

\* the senders the on-demand requests name
ApiSenders == {Str1, Str3}

\* the monitor and the on-demand endpoints, which share the classifier and the
\* responder with it
NextOnDemand ==
    \/ StartMonitoring
    \/ BeginCycle
    \/ FetchMailbox
    \/ ProcessEmail
    \/ EndCycle
    \/ \E sender \in ApiSenders, reply \in ClassifierReplies : TestClassify(sender, reply)
    \/ \E greply \in GeneratorReplies : TestResponse(greply)
    \/ \E sender \in ApiSenders, creply \in ClassifierReplies, greply \in GeneratorReplies :
         ProcessEmailRequest(sender, creply, greply)

SpecOnDemand == Init /\ [][NextOnDemand]_vars

\* the whole program: the monitor, the approval queue and the on-demand
\* endpoints, the responder answering the on-demand requests
NextApi ==
    \/ StartMonitoring
    \/ BeginCycle
    \/ FetchMailbox
    \/ ProcessEmail
    \/ EndCycle
    \/ \E response_id \in RequestIds : Approve(response_id)
    \/ \E response_id \in RequestIds : Reject(response_id)
    \/ \E response_id \in RequestIds, new_response \in EditTexts :
         Edit(response_id, new_response)
    \/ TestClassify(Str1, [classification |-> "partnership", confidence |-> 90])
    \/ TestResponse([content |-> "draft"])
    \/ \E creply \in ClassifierReplies :
         ProcessEmailRequest(Str1, creply, [content |-> "draft"])

SpecApi == Init /\ [][NextApi]_vars

\* ------------------------------------------------------------------ a long run of the poll loop
\* The mailboxes hold the messages 1..NumLogMsgs: more than the activity log keeps.
NumLogMsgs == 12

LogMsgIds == 1..NumLogMsgs

\* The server answers each SEARCH with nothing or with the lowest identifier
\* not seen so far, and no call fails.
FetchLogScenarios(ids, seen) ==
    { [connect |-> TRUE, search |-> "OK", unseen |-> U, fault |-> "none", at |-> 0]
      : U \in {{}} \cup { {m} : m \in {x \in ids \ seen : \A y \in ids \ seen : x <= y} } }

FetchMailboxLog ==
    \E env \in FetchLogScenarios(LogMsgIds, processed_emails) : FetchMailboxWith(env)

\* the classifier and the responder are up and answer the same way each time
ProcessEmailLog ==
    ProcessEmailWith([classification |-> "volunteer_interest", confidence |-> 85,
                      sentiment |-> "positive"],
                     [content |-> "draft"])

NextLog ==
    \/ StartMonitoring
    \/ BeginCycle
    \/ FetchMailboxLog
    \/ ProcessEmailLog
    \/ EndCycle

SpecLog == InitWith(LogMsgIds) /\ [][NextLog]_vars

\* ------------------------------------------------------------------ properties
HasId(pending, response_id) == \E i \in 1..Len(pending) : pending[i].id = response_id

\* the id of the draft an enqueue has just appended
NewestId(pending) == pending[Len(pending)].id

\* how many messages of draft `stamp` were handed to the SMTP server
TimesSent(sent, stamp) ==
    LET S == {m \in BagToSet(sent) : m.draft = stamp} IN
    IF S = {} THEN 0 ELSE BagCardinality([m \in S |-> sent[m]])

Stamps(pending) == {pending[i].timestamp : i \in 1..Len(pending)}

\* C1: every enqueue assigns an id strictly greater than every id assigned
\* before it, so an id that was removed from the queue is never assigned again.
C1_EnqueuedIdsIncrease ==
    [][clock' # clock => \A i \in assigned : NewestId(pending_responses') > i]_vars

\* C2: no two entries of the pending queue have the same id.
C2_QueueIdsUnique ==
    \A i, j \in 1..Len(pending_responses) :
        i # j => pending_responses[i].id # pending_responses[j].id

\* C3: approve of a present id whose send fails answers with a failure, sends
\* nothing and leaves the queue as it was, the entry still to be found under
\* the same id.
C3_FailedSendKeepsEntry ==
    [][last'.op = "approve" =>
       \A response_id \in RequestIds, smtp \in SmtpOutcomes \ {"sent"} :
          (HasId(pending_responses, response_id) /\ ApproveWith(response_id, smtp))
          => /\ last'.status = 500
             /\ pending_responses' = pending_responses
             /\ HasId(pending_responses', response_id)
             /\ outbox' = outbox]_vars

\* C3 witness: an approve has just failed with status 500 on a queue that holds
\* drafts.
C3_Witness ==
    /\ last.op = "approve"
    /\ last.status = 500
    /\ Len(pending_responses) >= 2

\* C4: approve of a present id whose send succeeds removes exactly one entry:
\* the queue is one shorter, the id is gone and every other entry is still
\* there, unchanged and in order.
C4_ApproveRemovesExactlyOne ==
    [][last'.op = "approve" =>
       \A response_id \in RequestIds :
          (HasId(pending_responses, response_id) /\ ApproveWith(response_id, "sent"))
          => /\ Len(pending_responses') = Len(pending_responses) - 1
             /\ ~HasId(pending_responses', response_id)
             /\ \E i \in 1..Len(pending_responses) :
                   pending_responses' =
                       SubSeq(pending_responses, 1, i - 1)
                       \o SubSeq(pending_responses, i + 1, Len(pending_responses))]_vars

\* C5: a draft leaves the queue only in a reject, or in an approve that sent
\* that very draft.
C5_DraftsLeaveOnlySentOrRejected ==
    [][\A stamp \in Stamps(pending_responses) \ Stamps(pending_responses') :
          \/ last'.op = "reject"
          \/ /\ last'.op = "approve"
             /\ last'.status = 200
             /\ TimesSent(outbox', stamp) = TimesSent(outbox, stamp) + 1]_vars

\* C6: approve of an id that is not in the queue answers 404 (not found), sends
\* nothing and leaves the queue as it was.
C6_ApproveAbsentNotFound ==
    [][last'.op = "approve" =>
       \A response_id \in RequestIds :
          (~HasId(pending_responses, response_id) /\ Approve(response_id))
          => /\ last'.status = 404
             /\ pending_responses' = pending_responses
             /\ outbox' = outbox]_vars

\* C6 witness: an approve has just answered 404 while the queue holds drafts.
C6_Witness ==
    /\ last.op = "approve"
    /\ last.status = 404
    /\ pending_responses # <<>>

\* C7: reject always answers success and sends nothing; afterwards no entry has
\* that id, every entry with another id is kept in order, and a reject of an
\* absent id (a second reject of the same id included) leaves the queue as it was.
C7_RejectIdempotent ==
    [][last'.op = "reject" =>
       \A response_id \in RequestIds :
          Reject(response_id)
          => /\ last'.status = 200
             /\ outbox' = outbox
             /\ ~HasId(pending_responses', response_id)
             /\ (~HasId(pending_responses, response_id)
                    => pending_responses' = pending_responses)
             /\ reject_response(pending_responses', response_id).pending_responses
                    = pending_responses']_vars

\* C7 witness: a reject of an id that was not in the queue has just answered,
\* and the queue holds drafts.
C7_Witness ==
    /\ last.op = "reject"
    /\ ~last.found
    /\ pending_responses # <<>>

\* C8: edit of a present id answers success and changes the generated text of
\* one entry with that id and nothing else (no other field, no other entry, not
\* the length or the order of the queue); edit of an absent id answers 404 and
\* leaves the queue as it was. No edit sends anything.
C8_EditChangesOnlyText ==
    [][last'.op = "edit" =>
       \A response_id \in RequestIds, new_response \in EditTexts :
          Edit(response_id, new_response)
          => /\ outbox' = outbox
             /\ IF HasId(pending_responses, response_id)
                THEN /\ last'.status = 200
                     /\ \E i \in 1..Len(pending_responses) :
                           /\ pending_responses[i].id = response_id
                           /\ pending_responses' =
                                 [pending_responses EXCEPT
                                     ![i].generated_response = new_response]
                ELSE /\ last'.status = 404
                     /\ pending_responses' = pending_responses]_vars

\* C8 witness: an edit has just succeeded on a queue of several drafts, one of
\* which now carries the edited text while another does not.
C8_Witness ==
    /\ last.op = "edit"
    /\ last.status = 200
    /\ \E i, j \in 1..Len(pending_responses) :
          /\ pending_responses[i].generated_response \in EditTexts
          /\ pending_responses[j].generated_response \notin EditTexts

\* C9: whatever the interleaving of the request threads, the reply of a draft
\* is handed to the SMTP server at most once.
C9_DraftSentAtMostOnce ==
    \A stamp \in 1..clock : TimesSent(outbox, stamp) <= 1

\* C10: a message identifier that has been marked seen is not handed to the
\* pipeline again: each (mailbox, identifier) enters the pipeline at most once,
\* and what waits to enter it has not entered it before.
C10_SeenNeverHandedAgain ==
    /\ \A k \in DOMAIN handed : handed[k] <= 1
    /\ \A i \in 1..Len(new_emails) :
          /\ new_emails[i].id \in processed_emails
          /\ handed[<<new_emails[i].account, new_emails[i].id>>] = 0

\* C10 witness: the message without a From header (its processing raised) was
\* handed to the pipeline once, and the last mailbox has just been fetched again
\* with the server still reporting that identifier unseen.
C10_Witness ==
    /\ last.op = "fetch"
    /\ last.reported_seen
    /\ accounts_left = <<>>
    /\ processed_emails = {2}
    /\ handed[<<"mdigo", 2>>] = 1

\* C11: the ledger of seen identifiers is kept per mailbox: when a fetch of a
\* mailbox goes through without fault and the server reports identifier m
\* unseen, m having been marked seen (and handed on) for another mailbox only,
\* the message of this mailbox is fetched.
C11_LedgerPerMailbox ==
    [][last'.op = "fetch" =>
       \A env \in FetchScenarios(MsgIds, processed_emails) :
          (env.connect /\ env.search = "OK" /\ env.fault = "none"
              /\ FetchMailboxWith(env))
          => \A m \in env.unseen :
                (/\ handed[<<Head(accounts_left), m>>] = 0
                 /\ \E other \in Mailboxes \ {Head(accounts_left)} :
                       handed[<<other, m>>] >= 1)
                => \E i \in 1..Len(new_emails') :
                      /\ new_emails'[i].id = m
                      /\ new_emails'[i].account = Head(accounts_left)]_vars

\* the text after the last '@' of a sender (the whole text when it has none)
DomainOf(s) ==
    LET ats == {i \in 1..Len(s) : s[i] = "@"} IN
    IF ats = {} THEN s
    ELSE SubSeq(s, (CHOOSE i \in ats : \A j \in ats : j <= i) + 1, Len(s))

\* text t reads as text u when letter case is ignored
SameIgnoringCase(t, u) ==
    Len(t) = Len(u) /\ \A i \in 1..Len(t) : lowerChar(t[i]) = lowerChar(u[i])

HasVipDomain(s) ==
    \E vip \in vip_domains :
       \E i \in 0..(Len(DomainOf(s)) - Len(vip)) :
          SameIgnoringCase(SubSeq(DomainOf(s), i + 1, i + Len(vip)), vip)

EqualsStaff(s) == \E e \in email_accounts : SameIgnoringCase(s, e)

\* a test classification has just been answered for a sender that is a text
Classified == last.op = "test_classify" /\ last.sender # None

\* the classifier answered with the JSON object it was asked for
CompleteReply(reply) ==
    /\ "raise" \notin DOMAIN reply
    /\ "classification" \in DOMAIN reply
    /\ "confidence" \in DOMAIN reply

\* C12: a sender whose domain contains a configured VIP domain is classified
\* vip_contact with confidence 100 and action human_review_required, the
\* classifier is not called, and what it would have answered plays no part;
\* being a staff address as well changes nothing.
C12_VipDomainWins ==
    (Classified /\ HasVipDomain(last.sender))
    => /\ last.result.classification = "vip_contact"
       /\ last.result.confidence = 100
       /\ last.result.action = "human_review_required"
       /\ ~last.called

\* C12 witness: a sender of a sub-domain of a VIP domain was classified while
\* the classifier stood ready to answer with a category that is auto-answered.
C12_Witness ==
    /\ Classified
    /\ last.sender = Str3
    /\ CompleteReply(last.reply)
    /\ last.reply.classification = "volunteer_interest"
    /\ last.reply.confidence > 70
    /\ last.result.classification = "vip_contact"

C14_RoutingThreshold ==
    (Classified /\ ~HasVipDomain(last.sender) /\ ~EqualsStaff(last.sender)
        /\ CompleteReply(last.reply))
    => /\ last.called
       /\ last.result.classification = last.reply.classification
       /\ last.result.confidence = last.reply.confidence
       /\ last.result.action =
             IF /\ last.reply.classification \in
                      {"volunteer_interest", "program_inquiry", "general_support"}
                /\ last.reply.confidence > 70
             THEN "generate_for_approval"
             ELSE "human_review"

\* C14 witness: a category that is auto-answered came with confidence exactly
\* 70 and went to human review.
C14_Witness ==
    /\ Classified
    /\ last.called
    /\ CompleteReply(last.reply)
    /\ last.reply.classification = "volunteer_interest"
    /\ last.reply.confidence = 70
    /\ last.result.action = "human_review"

\* C15: whenever the classifier fails (the call raises, the answer is not the
\* JSON asked for or lacks one of the keys classification and confidence), or
\* anything else raises, classify_email answers category error, confidence 0,
\* action human_review.
C15_FailureGivesError ==
    (/\ last.op = "test_classify"
     /\ \/ last.sender = None
        \/ last.called /\ ~CompleteReply(last.reply))
    => /\ last.result.classification = "error"
       /\ "confidence" \in DOMAIN last.result
       /\ last.result.confidence = 0
       /\ last.result.action = "human_review"

\* C16: the activity log never holds more than 10 records.
C16_LogAtMostTen == Len(recent_email_activity) <= 10

\* C16 witness: a message was processed while the log already held 10 records,
\* and it still holds 10.
C16_Witness ==
    /\ last.op = "process"
    /\ last.outcome # "exception"
    /\ last.log_before = 10
    /\ Len(recent_email_activity) = 10

\* C17: a message whose processing completes puts exactly one record, its own,
\* at the head of the log; the records that were there follow in their order,
\* and when there were 10 of them the oldest (the last one) is the one dropped.
C17_LogNewestFirst ==
    [][(last'.op = "process" /\ last'.outcome # "exception")
       => /\ Len(recent_email_activity') =
                IF Len(recent_email_activity) < 10
                THEN Len(recent_email_activity) + 1 ELSE 10
          /\ \A i \in 2..Len(recent_email_activity') :
                recent_email_activity'[i] = recent_email_activity[i - 1]
          /\ recent_email_activity'[1].subject = Head(new_emails).subject
          /\ recent_email_activity'[1].account = Head(new_emails).account
          /\ recent_email_activity'[1].from = extract_sender(Head(new_emails).sender)
          /\ recent_email_activity'[1].status =
                IF last'.outcome = "generate_for_approval"
                THEN "response_pending_approval" ELSE "human_review_required"]_vars

\* C17 witness: the record of a message sent on for approval has just been put
\* at the head of a log that was full, pushing out a record of another kind.
C17_Witness ==
    /\ last.op = "process"
    /\ last.outcome = "generate_for_approval"
    /\ last.log_before = 10
    /\ recent_email_activity[1].status = "response_pending_approval"
    /\ \E i \in 2..Len(recent_email_activity) :
          recent_email_activity[i].status = "human_review_required"

\* C18: a processing step of the poll loop appends exactly one draft to the
\* queue, built from the message it handled (normalized sender, subject,
\* original body, generated reply, category, confidence, mailbox, status
\* pending_approval), exactly when the classification action is
\* generate_for_approval; in every other case (VIP, staff, human review, error,
\* an exception) the responder is not called and the queue stays as it was.
C18_EnqueueIffApproval ==
    [][last'.op = "process" =>
       IF last'.outcome = "generate_for_approval"
       THEN /\ last'.responder_called
            /\ Len(pending_responses') = Len(pending_responses) + 1
            /\ SubSeq(pending_responses', 1, Len(pending_responses)) = pending_responses
            /\ LET draft == pending_responses'[Len(pending_responses')]
                   email == Head(new_emails)
               IN  /\ draft.sender = extract_sender(email.sender)
                   /\ draft.subject = email.subject
                   /\ draft.original_body = email.body
                   /\ draft.account = email.account
                   /\ draft.status = "pending_approval"
                   /\ draft.generated_response \in {"draft", Fallback}
                   /\ draft.classification = recent_email_activity'[1].classification
                   /\ draft.classification \in auto_respond_categories
                   /\ draft.confidence > 70
       ELSE /\ ~last'.responder_called
            /\ pending_responses' = pending_responses]_vars

\* C18 witness: a message has just been sent on for approval and its draft is
\* the newest entry of a queue that held a draft already.
C18_Witness ==
    /\ last.op = "process"
    /\ last.outcome = "generate_for_approval"
    /\ last.responder_called
    /\ Len(pending_responses) >= 2
    /\ pending_responses[Len(pending_responses)].status = "pending_approval"

\* C19: within one cycle a failure of one mailbox or of one message stops
\* nothing else: after any fetch (a failed connect included) the loop goes on
\* to the mailboxes that are left; when the fetch of one message fails, the
\* other messages the server reported, not seen before, are handed on; after
\* the processing of a message, whether it raised or not, the messages fetched
\* with it remain to be processed.
C19_FailureIsolated ==
    [][/\ last'.op = "fetch" =>
            \A env \in FetchScenarios(MsgIds, processed_emails) :
               FetchMailboxWith(env)
               => /\ accounts_left' = Tail(accounts_left)
                  /\ (env.connect /\ env.search = "OK" /\ env.fault \in {"NO", "raise"})
                     => \A n \in env.unseen \ (processed_emails \cup {env.at}) :
                           \E i \in 1..Len(new_emails') : new_emails'[i].id = n
       /\ last'.op = "process" =>
            /\ new_emails' = Tail(new_emails)
            /\ accounts_left' = accounts_left]_vars

\* C20: once monitoring is started the poll loop goes on for ever, whatever
\* fails on the way: from every state in which the running flag is set, the
\* loop comes to the end of a cycle and starts the next one.
C20_LoopNeverEnds == email_monitor_running ~> last.op = "end_cycle"

\* C20 witness: a cycle has just ended and the next one begun, after the
\* classifier failed on one message (its record says error) and the processing
\* of the message without From header raised.
C20_Witness ==
    /\ last.op = "end_cycle"
    /\ email_monitor_running
    /\ handed[<<"mdigo", 2>>] = 1
    /\ \E i \in 1..Len(recent_email_activity) :
          recent_email_activity[i].classification = "error"

\* C21: when the responder call fails for a message sent on for approval,
\* generate_response hands back the fixed fallback text and the poll loop
\* appends the draft all the same, with that text as its generated reply.
C21_FallbackDraftEnqueued ==
    [][last'.op = "process" =>
       \A creply \in ClassifierReplies :
          (ProcessEmailWith(creply, [raise |-> TRUE])
              /\ last'.outcome = "generate_for_approval")
          => /\ Len(pending_responses') = Len(pending_responses) + 1
             /\ pending_responses'[Len(pending_responses')].generated_response = Fallback
             /\ pending_responses'[Len(pending_responses')].status = "pending_approval"
             /\ pending_responses'[Len(pending_responses')].original_body
                   = Head(new_emails).body]_vars

\* C21 witness: a message has just been sent on for approval and the newest
\* draft of the queue carries the fallback text.
C21_Witness ==
    /\ last.op = "process"
    /\ last.outcome = "generate_for_approval"
    /\ pending_responses # <<>>
    /\ pending_responses[Len(pending_responses)].generated_response = Fallback

\* C22: a reply leaves the program only in a step of approve_response that
\* answers 200 for an id it found in the queue, and the reply is the one of
\* the draft found under that id; the poll loop, reject, edit and the
\* on-demand endpoints send nothing.
C22_OnlyApproveSends ==
    [][outbox' # outbox =>
       /\ last'.op = "approve"
       /\ last'.status = 200
       /\ \E response_id \in RequestIds :
             /\ HasId(pending_responses, response_id)
             /\ ApproveWith(response_id, "sent")
             /\ \E i \in 1..Len(pending_responses) :
                   /\ pending_responses[i].id = response_id
                   /\ TimesSent(outbox', pending_responses[i].timestamp)
                         = TimesSent(outbox, pending_responses[i].timestamp) + 1
                   /\ BagCardinality(outbox') = BagCardinality(outbox) + 1]_vars

\* C22 witness: an approval has just mailed a reply.
C22_Witness ==
    /\ last.op = "approve"
    /\ last.status = 200
    /\ BagCardinality(outbox) > 0

\* C23: when approve_response or reject_response stores the list it built, a
\* draft that process_emails appended since the list was built, under another
\* id than the one being removed, is still in the queue.
C23_EnqueueNotLost ==
    [][\A w \in Workers :
          (/\ req[w].op \in {"approve", "reject"}
           /\ req[w].pc = "store"
           /\ req'[w] = Idle)
          => \A i \in 1..Len(pending_responses) :
                (/\ pending_responses[i].id # req[w].id
                 /\ pending_responses[i].timestamp \notin Stamps(req[w].pending))
                => pending_responses[i].timestamp \in Stamps(pending_responses')]_vars

\* C24: a draft is not mailed in the step that follows the answer of a
\* reject_response naming its id: once reject(id) has answered success, an
\* approve(id) that is still under way sends nothing for that draft.
C24_NoSendAfterReject ==
    [][(last.op = "reject" /\ last.status = 200 /\ "id" \in DOMAIN last)
       => \A w \in Workers :
             (/\ req[w].op = "approve"
              /\ req[w].pc = "send"
              /\ req[w].id = last.id
              /\ req[w].found.timestamp \notin Stamps(pending_responses))
             => TimesSent(outbox', req[w].found.timestamp)
                   = TimesSent(outbox, req[w].found.timestamp)]_vars

\* C25: whatever start-monitoring requests were served, and however they were
\* interleaved, at most one monitor thread has been started.
C25_OneMonitorThread == monitor_threads <= 1

\* C26: every message a fetch marks seen is in the list the fetch returns to
\* process_emails for this cycle, whatever happens at a later message of the
\* mailbox.
C26_SeenIsHandedOn ==
    [][last'.op = "fetch" =>
       \A id \in processed_emails' \ processed_emails :
          \E i \in 1..Len(new_emails') : new_emails'[i].id = id]_vars

\* C27: when an edit of an id was accepted and a later approve of that id
\* mails a reply, no other edit of the id having been accepted since, the
\* reply carries the text of that edit, goes to the sender recorded on the
\* draft and leaves through the mailbox recorded on the draft. The approve
\* looked at is the first one that mails anything, so that no approve lies
\* between the edit and it.
C27_EditedTextIsSent ==
    [][\A response_id \in RequestIds :
          (/\ outbox = EmptyBag
           /\ HasId(pending_responses, response_id)
           /\ last_edit[response_id] # "none"
           /\ ApproveWith(response_id, "sent"))
          => LET draft == pending_responses[find_response(pending_responses, response_id)]
             IN  \A m \in BagToSet(outbox') :
                    CopiesIn(m, outbox') > CopiesIn(m, outbox)
                    => /\ m.msg.body = last_edit[response_id]
                       /\ m.msg.to = draft.sender
                       /\ m.msg.from = EMAIL_CONFIG[draft.account].email]_vars

\* the on-demand requests: test_classify, test_response and process_email
OnDemandOps == {"test_classify", "test_response", "process_email"}

====
